---- MODULE Spec2Model ----
(***************************************************************************)
(* Model of the remote-access layer of bitbucket_cli:                      *)
(*   - auth.py : configuration store, credential setting, header           *)
(*               resolution                                                *)
(*   - api.py  : BitbucketAPI transport (requests session with a urllib3   *)
(*               Retry adapter) and response classification               *)
(* Three specifications share the variables:                               *)
(*   SpecCred      set_auth / clear_auth / reset_config on the store       *)
(*   SpecResolve   get_auth_headers over configuration x environment       *)
(*   SpecTransport BitbucketAPI.get/post/put/delete, attempt by attempt    *)
(***************************************************************************)
EXTENDS Integers, Sequences, FiniteSets, TLC

VARIABLES
    file,            \* ~/.bitbucket-cli/config.yaml : [exists, content]
    DEFAULT_CONFIG,  \* the module-level dict of auth.py, as the process sees it
    call,            \* last credential-store operation and its arguments
    config,          \* configuration object handed to the resolver / the API
    env,             \* os.environ, the four BITBUCKET_* variables
    result,          \* what the last get_auth_headers call returned or raised
    pc,              \* position of the transport request in flight
    request,         \* the request in flight: [op, method]
    retries,         \* Retry.total still left for the request in flight
    history,         \* what each HTTP attempt of the request met, in order
    outcome,         \* what the transport call returned or raised
    server,          \* what the remote service holds and how it links pages
    walk,            \* get_all_pages in progress: its locals and its result
    cmd,             \* command or validation in progress: its locals and result
    log              \* transport calls and pauses issued so far, in order

vars == <<file, DEFAULT_CONFIG, call, config, env, result,
          pc, request, retries, history, outcome, server, walk, cmd, log>>

credVars      == <<file, DEFAULT_CONFIG, call>>
resolveVars   == <<config, env, result>>
transportVars == <<pc, request, retries, history, outcome>>
layerVars     == <<server, walk, cmd, log>>

----------------------------------------------------------------------------
(* Python values *)

\* Python's None; no token of the model is spelled like it.
None == "None"

\* Truth value of an Optional[str]: None and "" are falsy.
Truthy(v) == v # None /\ v # ""

\* Python's `a or b`.
Or(a, b) == IF Truthy(a) THEN a ELSE b

----------------------------------------------------------------------------
(* auth.py : configuration store *)

Groups == {"auth", "defaults", "api"}

AuthSlots == {"repo_token", "username", "app_password", "workspace", "oauth_token"}

NoAuth == [repo_token |-> None, username |-> None, app_password |-> None,
           workspace |-> None, oauth_token |-> None]

\* The literal bound to DEFAULT_CONFIG when the module is imported.
DefaultConfigLiteral ==
    [auth     |-> NoAuth,
     defaults |-> [reviewers |-> <<>>, delete_source_branch |-> TRUE,
                   merge_strategy |-> "merge_commit", default_branch |-> "main"],
     api      |-> [base_url |-> "https://api.bitbucket.org/2.0",
                   timeout |-> 30, retries |-> 3]]

NoFile == [exists |-> FALSE, content |-> << >>]

\* save_config: yaml.safe_dump of the mapping; None, strings, booleans,
\* integers and lists are read back unchanged by yaml.safe_load.
save_config(cfg) == [exists |-> TRUE, content |-> cfg]

\* merge_configs on one group: a new dict, the user's keys over the default's.
merge_group(default, user) ==
    [k \in (DOMAIN default) \cup (DOMAIN user) |->
        IF k \in DOMAIN user THEN user[k] ELSE default[k]]

\* merge_configs(DEFAULT_CONFIG, user): default.copy() is shallow, so a group
\* the user file lacks stays the very dict object of DEFAULT_CONFIG.
merge_configs(default, user) ==
    [g \in (DOMAIN default) \cup (DOMAIN user) |->
        IF g \in DOMAIN user
        THEN IF g \in DOMAIN default THEN merge_group(default[g], user[g])
                                     ELSE user[g]
        ELSE default[g]]

\* load_config: the configuration it returns, the groups of it that are
\* DEFAULT_CONFIG's own dict objects, and the file it leaves behind.
load_config(f, dflt) ==
    IF ~f.exists
    THEN [config |-> dflt, aliased |-> DOMAIN dflt, file |-> save_config(dflt)]
    ELSE [config  |-> merge_configs(dflt, f.content),
          aliased |-> (DOMAIN dflt) \ (DOMAIN f.content),
          file    |-> f]

----------------------------------------------------------------------------
(* auth.py : credential setting *)

NoArgs == [repo_token |-> None, username |-> None, app_password |-> None,
           workspace |-> None, oauth_token |-> None]

\* Arguments a caller may pass for one slot: omitted or a value; for the
\* two token slots also the empty string.
ArgValues(slot) == {None, "new_" \o slot}

SetAuthArgs ==
    [repo_token : ArgValues("repo_token") \cup {""},
     username : ArgValues("username"),
     app_password : ArgValues("app_password"),
     workspace : ArgValues("workspace"),
     oauth_token : ArgValues("oauth_token") \cup {""}]

\* set_auth whose repository-token branch forgets to clear the OAuth token.
set_auth_dict_keeps_oauth(a0, args) ==
    LET a1 == IF Truthy(args.repo_token)
              THEN [a0 EXCEPT !["repo_token"] = args.repo_token,
                              !["username"] = None,
                              !["app_password"] = None]
              ELSE a0
        a2 == IF Truthy(args.username)
              THEN [a1 EXCEPT !["username"] = args.username] ELSE a1
        a3 == IF Truthy(args.app_password)
              THEN [a2 EXCEPT !["app_password"] = args.app_password] ELSE a2
        a4 == IF Truthy(args.workspace)
              THEN [a3 EXCEPT !["workspace"] = args.workspace] ELSE a3
        a5 == IF Truthy(args.oauth_token)
              THEN [a4 EXCEPT !["oauth_token"] = args.oauth_token,
                              !["username"] = None,
                              !["app_password"] = None]
              ELSE a4
    IN  a5

\* set_auth whose OAuth branch runs before the username and app-password
\* assignments instead of after them.
set_auth_dict_oauth_first(a0, args) ==
    LET a1 == IF Truthy(args.repo_token)
              THEN [a0 EXCEPT !["repo_token"] = args.repo_token,
                              !["username"] = None,
                              !["app_password"] = None,
                              !["oauth_token"] = None]
              ELSE a0
        a2 == IF Truthy(args.oauth_token)
              THEN [a1 EXCEPT !["oauth_token"] = args.oauth_token,
                              !["username"] = None,
                              !["app_password"] = None]
              ELSE a1
        a3 == IF Truthy(args.username)
              THEN [a2 EXCEPT !["username"] = args.username] ELSE a2
        a4 == IF Truthy(args.app_password)
              THEN [a3 EXCEPT !["app_password"] = args.app_password] ELSE a3
        a5 == IF Truthy(args.workspace)
              THEN [a4 EXCEPT !["workspace"] = args.workspace] ELSE a4
    IN  a5

\* The body of set_auth on the auth dict, statement by statement.
set_auth_dict(a0, args) ==
    LET a1 == IF Truthy(args.repo_token)
              THEN [a0 EXCEPT !["repo_token"] = args.repo_token,
                              !["username"] = None,
                              !["app_password"] = None,
                              !["oauth_token"] = None]
              ELSE a0
        a2 == IF Truthy(args.username)
              THEN [a1 EXCEPT !["username"] = args.username] ELSE a1
        a3 == IF Truthy(args.app_password)
              THEN [a2 EXCEPT !["app_password"] = args.app_password] ELSE a2
        a4 == IF Truthy(args.workspace)
              THEN [a3 EXCEPT !["workspace"] = args.workspace] ELSE a3
        a5 == IF Truthy(args.oauth_token)
              THEN [a4 EXCEPT !["oauth_token"] = args.oauth_token,
                              !["username"] = None,
                              !["app_password"] = None]
              ELSE a4
    IN  a5

set_auth(args) ==
    LET L    == load_config(file, DEFAULT_CONFIG)
        auth == set_auth_dict(L.config["auth"], args)
    IN  /\ file' = save_config([L.config EXCEPT !["auth"] = auth])
        \* config["auth"] is DEFAULT_CONFIG["auth"] itself when aliased
        /\ DEFAULT_CONFIG' = IF "auth" \in L.aliased
                             THEN [DEFAULT_CONFIG EXCEPT !["auth"] = auth]
                             ELSE DEFAULT_CONFIG
        /\ call' = [op |-> "set_auth", args |-> args]
        /\ UNCHANGED <<resolveVars, transportVars, layerVars>>

clear_auth ==
    LET L == load_config(file, DEFAULT_CONFIG)
    IN  /\ file' = save_config([L.config EXCEPT !["auth"] = NoAuth])
        /\ call' = [op |-> "clear_auth", args |-> NoArgs]
        /\ UNCHANGED <<DEFAULT_CONFIG, resolveVars, transportVars, layerVars>>

reset_config ==
    /\ file' = save_config(DEFAULT_CONFIG)
    /\ call' = [op |-> "reset_config", args |-> NoArgs]
    /\ UNCHANGED <<DEFAULT_CONFIG, resolveVars, transportVars, layerVars>>

\* A new bb-pr process: importing auth.py binds DEFAULT_CONFIG afresh.
NewProcess ==
    /\ call.op # "import"
    /\ DEFAULT_CONFIG' = DefaultConfigLiteral
    /\ call' = [op |-> "import", args |-> NoArgs]
    /\ UNCHANGED <<file, resolveVars, transportVars, layerVars>>

\* Configuration files a first run can find: none, an empty one, one that
\* sets only the api group.
InitFiles ==
    { NoFile,
      [exists |-> TRUE, content |-> << >>],
      [exists |-> TRUE, content |-> [g \in {"api"} |-> [retries |-> 1]]] }

IdleResolve ==
    /\ config = DefaultConfigLiteral
    /\ env = [s \in {"repo_token", "oauth_token", "username", "app_password"} |-> None]
    /\ result = [kind |-> "none", headers |-> << >>, message |-> << >>]

IdleTransport ==
    /\ pc = "idle"
    /\ request = [op |-> "none", method |-> "none"]
    /\ retries = 0
    /\ history = << >>
    /\ outcome = [kind |-> "none", value |-> << >>, message |-> ""]

IdleCred ==
    /\ file = NoFile
    /\ DEFAULT_CONFIG = DefaultConfigLiteral
    /\ call = [op |-> "import", args |-> NoArgs]

NoServer == [pages |-> << >>]

IdleWalk == [pc |-> "idle"]

IdleCmd == [op |-> "none", pc |-> "idle"]

IdleLayers ==
    /\ server = NoServer
    /\ walk = IdleWalk
    /\ cmd = IdleCmd
    /\ log = << >>

InitCred ==
    /\ file \in InitFiles
    /\ DEFAULT_CONFIG = DefaultConfigLiteral
    /\ call = [op |-> "import", args |-> NoArgs]
    /\ IdleResolve
    /\ IdleTransport
    /\ IdleLayers

NextCred ==
    \/ \E args \in SetAuthArgs : set_auth(args)
    \/ clear_auth
    \/ reset_config
    \/ NewProcess

SpecCred == InitCred /\ [][NextCred]_vars

----------------------------------------------------------------------------
(* auth.py : get_auth_headers *)

EnvSlots == {"repo_token", "oauth_token", "username", "app_password"}

\* base64.b64encode(...).decode(): an injective encoding of the text.
b64encode(text) == "b64(" \o text \o ")"

Headers(authorization) ==
    [Authorization |-> authorization,
     Accept        |-> "application/json",
     ContentType   |-> "application/json",
     UserAgent     |-> "bitbucket-cli-for-claude-code/1.0.0"]

NoHeaders == << >>

\* The text of the AuthenticationError raised when nothing is configured,
\* line by line.
NoAuthMessage ==
    << "No authentication configured. Use:",
       "  bb-pr config --repo-token YOUR_REPO_TOKEN",
       "  OR export BITBUCKET_REPO_TOKEN=your_token" >>

\* get_auth_headers reading the environment before the configuration.
get_auth_headers_env_first(cfg, environ) ==
    LET auth         == cfg["auth"]
        repo_token   == Or(environ["repo_token"], auth["repo_token"])
        oauth_token  == Or(environ["oauth_token"], auth["oauth_token"])
        username     == Or(environ["username"], auth["username"])
        app_password == Or(environ["app_password"], auth["app_password"])
    IN  IF Truthy(repo_token)
        THEN [kind |-> "headers", headers |-> Headers("Bearer " \o repo_token),
              message |-> << >>]
        ELSE IF Truthy(oauth_token)
        THEN [kind |-> "headers", headers |-> Headers("Bearer " \o oauth_token),
              message |-> << >>]
        ELSE IF Truthy(username) /\ Truthy(app_password)
        THEN [kind |-> "headers",
              headers |-> Headers("Basic " \o b64encode(username \o ":" \o app_password)),
              message |-> << >>]
        ELSE [kind |-> "AuthenticationError", headers |-> NoHeaders,
              message |-> NoAuthMessage]

\* get_auth_headers trying the OAuth token before the repository token.
get_auth_headers_oauth_first(cfg, environ) ==
    LET auth         == cfg["auth"]
        repo_token   == Or(auth["repo_token"], environ["repo_token"])
        oauth_token  == Or(auth["oauth_token"], environ["oauth_token"])
        username     == Or(auth["username"], environ["username"])
        app_password == Or(auth["app_password"], environ["app_password"])
    IN  IF Truthy(oauth_token)
        THEN [kind |-> "headers", headers |-> Headers("Bearer " \o oauth_token),
              message |-> << >>]
        ELSE IF Truthy(repo_token)
        THEN [kind |-> "headers", headers |-> Headers("Bearer " \o repo_token),
              message |-> << >>]
        ELSE IF Truthy(username) /\ Truthy(app_password)
        THEN [kind |-> "headers",
              headers |-> Headers("Basic " \o b64encode(username \o ":" \o app_password)),
              message |-> << >>]
        ELSE [kind |-> "AuthenticationError", headers |-> NoHeaders,
              message |-> NoAuthMessage]

\* get_auth_headers accepting a username or an app-password alone.
get_auth_headers_partial_pair(cfg, environ) ==
    LET auth         == cfg["auth"]
        repo_token   == Or(auth["repo_token"], environ["repo_token"])
        oauth_token  == Or(auth["oauth_token"], environ["oauth_token"])
        username     == Or(auth["username"], environ["username"])
        app_password == Or(auth["app_password"], environ["app_password"])
    IN  IF Truthy(repo_token)
        THEN [kind |-> "headers", headers |-> Headers("Bearer " \o repo_token),
              message |-> << >>]
        ELSE IF Truthy(oauth_token)
        THEN [kind |-> "headers", headers |-> Headers("Bearer " \o oauth_token),
              message |-> << >>]
        ELSE IF Truthy(username) \/ Truthy(app_password)
        THEN [kind |-> "headers",
              headers |-> Headers("Basic " \o b64encode(username \o ":" \o app_password)),
              message |-> << >>]
        ELSE [kind |-> "AuthenticationError", headers |-> NoHeaders,
              message |-> NoAuthMessage]

get_auth_headers(cfg, environ) ==
    LET auth         == cfg["auth"]
        repo_token   == Or(auth["repo_token"], environ["repo_token"])
        oauth_token  == Or(auth["oauth_token"], environ["oauth_token"])
        username     == Or(auth["username"], environ["username"])
        app_password == Or(auth["app_password"], environ["app_password"])
    IN  IF Truthy(repo_token)
        THEN [kind |-> "headers", headers |-> Headers("Bearer " \o repo_token),
              message |-> << >>]
        ELSE IF Truthy(oauth_token)
        THEN [kind |-> "headers", headers |-> Headers("Bearer " \o oauth_token),
              message |-> << >>]
        ELSE IF Truthy(username) /\ Truthy(app_password)
        THEN [kind |-> "headers",
              headers |-> Headers("Basic " \o b64encode(username \o ":" \o app_password)),
              message |-> << >>]
        ELSE [kind |-> "AuthenticationError", headers |-> NoHeaders,
              message |-> NoAuthMessage]

\* Values a configuration slot / an environment variable can hold.
CfgValues(slot) == {None, "", "cfg_" \o slot}
EnvValues(slot) == {None, "", "env_" \o slot}

ResolveConfigs ==
    { [DefaultConfigLiteral EXCEPT !["auth"] =
          [repo_token |-> rt, username |-> u, app_password |-> p,
           workspace |-> None, oauth_token |-> ot]] :
      rt \in CfgValues("repo_token"), u \in CfgValues("username"),
      p \in CfgValues("app_password"), ot \in CfgValues("oauth_token") }

Environments ==
    [repo_token : EnvValues("repo_token"), oauth_token : EnvValues("oauth_token"),
     username : EnvValues("username"), app_password : EnvValues("app_password")]

GetAuthHeaders ==
    /\ result.kind = "none"
    /\ result' = get_auth_headers(config, env)
    /\ UNCHANGED <<config, env, credVars, transportVars, layerVars>>

InitResolve ==
    /\ config \in ResolveConfigs
    /\ env \in Environments
    /\ result = [kind |-> "none", headers |-> NoHeaders, message |-> << >>]
    /\ IdleCred
    /\ IdleTransport
    /\ IdleLayers

NextResolve == GetAuthHeaders

SpecResolve == InitResolve /\ [][NextResolve]_vars

----------------------------------------------------------------------------
(* api.py : BitbucketAPI, the session and its Retry adapter *)

\* Largest api.retries a configuration of the model sets.
MaxRetries == 3

\* Retry(status_forcelist=...), Retry(allowed_methods=...)
status_forcelist == {429, 500, 502, 503, 504}

allowed_methods_with_post == {"HEAD", "GET", "OPTIONS", "POST"}

allowed_methods == {"HEAD", "GET", "OPTIONS"}

\* urllib3's Retry.RETRY_AFTER_STATUS_CODES; respect_retry_after_header is
\* left at its default (True) by the Retry(...) call.
RETRY_AFTER_STATUS_CODES == {413, 429, 503}

\* HTTP method of each client operation.
MethodOf(op) ==
    CASE op = "get"                -> "GET"
      [] op = "post"               -> "POST"
      [] op = "put"                -> "PUT"
      [] op = "delete"             -> "DELETE"
      [] op = "merge_pull_request" -> "POST"

Operations == {"get", "post", "put", "delete", "merge_pull_request"}

\* What one HTTP attempt can meet: a response, a failure to connect, or a
\* failure while reading the response.
Resp(s, ra, b) == [kind |-> "response", status |-> s, retry_after |-> ra, body |-> b]

ConnectError == [kind |-> "connect_error", status |-> 0, retry_after |-> FALSE, body |-> ""]

ReadError == [kind |-> "read_error", status |-> 0, retry_after |-> FALSE, body |-> ""]

JsonBody  == "{\"id\": 1}"
ErrorBody == "{\"error\": {\"message\": \"boom\"}}"
HtmlBody  == "<html>"

Responses ==
    {Resp(s, FALSE, b) : s \in {200, 201}, b \in {"", JsonBody, HtmlBody}}
    \cup {Resp(204, FALSE, "")}
    \cup {Resp(s, FALSE, ErrorBody) : s \in {401, 403, 404, 409, 429, 502, 503, 504}}
    \cup {Resp(s, FALSE, b) : s \in {400, 500}, b \in {ErrorBody, HtmlBody}}
    \cup {Resp(413, ra, HtmlBody) : ra \in BOOLEAN}

AttemptResults == Responses \cup {ConnectError, ReadError}

\* response.json(): the decoded document, for the bodies that decode.
Decodable(body) == body \in {JsonBody, ErrorBody}

Json(body) ==
    CASE body = JsonBody  -> [id |-> 1]
      [] body = ErrorBody -> [error |-> [message |-> "boom"]]

\* response.reason
Reason(status) ==
    CASE status = 400 -> "Bad Request"
      [] status = 413 -> "Payload Too Large"
      [] status = 500 -> "Internal Server Error"
      [] status = 502 -> "Bad Gateway"
      [] status = 503 -> "Service Unavailable"
      [] status = 504 -> "Gateway Timeout"
      [] OTHER        -> "Unknown"

EmptyObject == << >>

Returned(value) == [kind |-> "data", value |-> value, message |-> ""]

Raised(exception, message) ==
    [kind |-> exception, value |-> EmptyObject, message |-> message]

\* _handle_response on a 409 without the Conflict branch.
handle_response_no_conflict(response) ==
    LET status == response.status
    IN  IF status = 200 \/ status = 201
        THEN IF response.body # ""
             THEN IF Decodable(response.body)
                  THEN Returned(Json(response.body))
                  ELSE Raised("requests.JSONDecodeError", "")
             ELSE Returned(EmptyObject)
        ELSE IF status = 204 THEN Returned(EmptyObject)
        ELSE IF status = 401
        THEN Raised("AuthenticationError", "Authentication failed. Check your credentials.")
        ELSE IF status = 403
        THEN Raised("PermissionError", "Insufficient permissions for this operation.")
        ELSE IF status = 404
        THEN Raised("NotFoundError", "Resource not found.")
        ELSE IF status = 429
        THEN Raised("RateLimitError", "Rate limit exceeded. Please wait and try again.")
        ELSE Raised("BitbucketAPIError", "API Error: HTTP " \o ToString(status))

\* _handle_response
handle_response(response) ==
    LET status == response.status
    IN  IF status = 200 \/ status = 201
        THEN IF response.body # ""
             THEN IF Decodable(response.body)
                  THEN Returned(Json(response.body))
                  ELSE Raised("requests.JSONDecodeError", "")
             ELSE Returned(EmptyObject)
        ELSE IF status = 204 THEN Returned(EmptyObject)
        ELSE IF status = 401
        THEN Raised("AuthenticationError", "Authentication failed. Check your credentials.")
        ELSE IF status = 403
        THEN Raised("PermissionError", "Insufficient permissions for this operation.")
        ELSE IF status = 404
        THEN Raised("NotFoundError", "Resource not found.")
        ELSE IF status = 409
        THEN Raised("ConflictError",
                    "Conflict - operation cannot be completed (e.g., PR already merged).")
        ELSE IF status = 429
        THEN Raised("RateLimitError", "Rate limit exceeded. Please wait and try again.")
        ELSE LET message ==
                    IF Decodable(response.body)
                    THEN IF "error" \in DOMAIN Json(response.body)
                         THEN Json(response.body)["error"]["message"]
                         ELSE "HTTP " \o ToString(status)
                    ELSE "HTTP " \o ToString(status) \o ": " \o Reason(status)
             IN  Raised("BitbucketAPIError", "API Error: " \o message)

\* Retry.is_retry as the session's Retry(...) is configured: total is the
\* count still left.
is_retry(method, status, has_retry_after, total) ==
    IF method \notin allowed_methods THEN FALSE
    ELSE IF status \in status_forcelist THEN TRUE
    ELSE /\ total # 0
         /\ has_retry_after
         /\ status \in RETRY_AFTER_STATUS_CODES

\* Retry.is_exhausted off by one: out of retries already at zero.
is_exhausted_at_zero(total) == total <= 0

\* Retry.is_exhausted: only total is set, so the smallest count is total.
is_exhausted(total) == total < 0

\* Configurations an API object is built from: with or without a stored
\* repository token, api.retries from 0 to MaxRetries.
TransportConfigs ==
    { [DefaultConfigLiteral EXCEPT !["auth"]["repo_token"] = rt,
                                   !["api"]["retries"] = n] :
      rt \in CfgValues("repo_token") \ {""}, n \in 0..MaxRetries }

\* get / post / put / delete -> _request, up to the first HTTP attempt:
\* the headers are resolved first, and a failure there sends nothing.
Call(op) ==
    /\ pc = "idle"
    /\ request' = [op |-> op, method |-> MethodOf(op)]
    /\ history' = << >>
    /\ LET headers == get_auth_headers(config, env)
       IN  IF headers.kind = "AuthenticationError"
           THEN /\ pc' = "done"
                /\ outcome' = Raised("AuthenticationError", headers.message[1])
                /\ UNCHANGED retries
           ELSE /\ pc' = "attempt"
                /\ retries' = config["api"]["retries"]   \* Retry(total=self.max_retries)
                /\ UNCHANGED outcome
    /\ UNCHANGED <<config, env, result, credVars, layerVars>>

\* The attempt is retried: Retry.increment, then exhaustion ends the request
\* with the exception `raised`, otherwise the next attempt follows.
Increment(raised) ==
    IF is_exhausted(retries - 1)
    THEN /\ pc' = "done"
         /\ outcome' = Raised(raised, "")
         /\ UNCHANGED retries
    ELSE /\ pc' = "attempt"
         /\ retries' = retries - 1
         /\ UNCHANGED outcome

\* One HTTP attempt of session.request, with what the adapter does next.
Attempt(r) ==
    /\ pc = "attempt"
    /\ history' = Append(history, r)
    /\ CASE r.kind = "response" ->
              IF is_retry(request.method, r.status, r.retry_after, retries)
              THEN \* MaxRetryError(ResponseError) leaves requests as RetryError
                   Increment("requests.RetryError")
              ELSE /\ pc' = "done"
                   /\ outcome' = handle_response(r)
                   /\ UNCHANGED retries
         [] r.kind = "connect_error" ->
              \* connection errors are retried whatever the method
              Increment("requests.ConnectionError")
         [] r.kind = "read_error" ->
              IF request.method \notin allowed_methods
              THEN /\ pc' = "done"
                   /\ outcome' = Raised("requests.ReadTimeout", "")
                   /\ UNCHANGED retries
              ELSE Increment("requests.ConnectionError")
    /\ UNCHANGED <<request, config, env, result, credVars, layerVars>>

InitTransport ==
    /\ config \in TransportConfigs
    /\ env = [s \in EnvSlots |-> None]
    /\ result = [kind |-> "none", headers |-> NoHeaders, message |-> << >>]
    /\ IdleCred
    /\ IdleTransport
    /\ IdleLayers

NextTransport ==
    \/ \E op \in Operations : Call(op)
    \/ \E r \in AttemptResults : Attempt(r)

SpecTransport == InitTransport /\ [][NextTransport]_vars

----------------------------------------------------------------------------
(* api.py : get_diff, the raw-text variant *)

ReturnedText(text) == [kind |-> "text", value |-> text, message |-> ""]

\* A Python function that falls off its end returns None.
ReturnedNone == [kind |-> "None", value |-> EmptyObject, message |-> ""]

\* The tail of get_diff: response.text on 200, otherwise _handle_response
\* is called and what it returns is dropped.
get_diff_result(response) ==
    IF response.status = 200
    THEN ReturnedText(response.body)
    ELSE LET classified == handle_response(response)
         IN  IF classified.kind = "data" THEN ReturnedNone ELSE classified

\* get_diff up to its first HTTP attempt: the headers are resolved first.
get_diff ==
    /\ pc = "idle"
    /\ request' = [op |-> "get_diff", method |-> "GET"]
    /\ history' = << >>
    /\ LET headers == get_auth_headers(config, env)
       IN  IF headers.kind = "AuthenticationError"
           THEN /\ pc' = "done"
                /\ outcome' = Raised("AuthenticationError", headers.message[1])
                /\ UNCHANGED retries
           ELSE /\ pc' = "attempt"
                /\ retries' = config["api"]["retries"]
                /\ UNCHANGED outcome
    /\ UNCHANGED <<config, env, result, credVars, layerVars>>

\* One HTTP attempt of the session.get of get_diff: the same adapter as
\* _request, then the tail of get_diff.
get_diff_attempt(r) ==
    /\ pc = "attempt"
    /\ request.op = "get_diff"
    /\ history' = Append(history, r)
    /\ CASE r.kind = "response" ->
              IF is_retry(request.method, r.status, r.retry_after, retries)
              THEN Increment("requests.RetryError")
              ELSE /\ pc' = "done"
                   /\ outcome' = get_diff_result(r)
                   /\ UNCHANGED retries
         [] r.kind = "connect_error" -> Increment("requests.ConnectionError")
         [] r.kind = "read_error"    -> Increment("requests.ConnectionError")
    /\ UNCHANGED <<request, config, env, result, credVars, layerVars>>

NextDiff ==
    \/ get_diff
    \/ \E r \in AttemptResults : get_diff_attempt(r)

SpecDiff == InitTransport /\ [][NextDiff]_vars

----------------------------------------------------------------------------
(* api.py : get_all_pages over a chain of pages *)

\* Longest chain of pages the remote service holds, and largest page.
MaxPages == 3
MaxPageSize == 2

\* URLs are sequences of parts; a part is never split by a replacement.
Host == "https://api.bitbucket.org/2.0"
Slash == "/"
Endpoint == <<"/repositories/ws/repo/pullrequests">>

\* An absent "next" key: response.get("next") is None, falsy like "".
NoUrl == << >>

\* What config["api"]["base_url"] may hold: the default, or the default
\* written with a trailing slash.
BaseUrls == {<<Host>>, <<Host, Slash>>}

RECURSIVE rstrip(_)
\* str.rstrip("/")
rstrip(url) ==
    IF url # << >> /\ url[Len(url)] = Slash
    THEN rstrip(SubSeq(url, 1, Len(url) - 1))
    ELSE url

RECURSIVE replace(_, _)
\* str.replace(old, ""): every occurrence of old is removed, left to right.
replace(url, old) ==
    IF old = << >> \/ Len(url) < Len(old) THEN url
    ELSE IF SubSeq(url, 1, Len(old)) = old
         THEN replace(SubSeq(url, Len(old) + 1, Len(url)), old)
         ELSE <<url[1]>> \o replace(Tail(url), old)

\* self.base_url of the API object.
base_url(cfg) == rstrip(cfg["api"]["base_url"])

\* The cursor the service gives for page i > 1. The service builds absolute
\* URLs on its own host; a cursor may carry the query of the listing, and
\* that query may itself hold a URL of the service.
Cursor(i, style) ==
    <<Host>> \o Endpoint \o <<"?page=" \o ToString(i)>>
             \o (IF style = "plain" THEN << >> ELSE <<"&q=", Host>>)

CursorStyles == {"plain", "query"}

PageUrl(i, style) == IF i = 1 THEN <<Host>> \o Endpoint ELSE Cursor(i, style)

\* The items of page i: told apart by page and position.
Items(i, size) == [j \in 1..size |-> [page |-> i, idx |-> j]]

\* A chain of pages: the size of each, whether a page without items comes
\* without the "values" key, and the style of the cursors.
Chain(sizes, keyless, style) ==
    [i \in 1..Len(sizes) |->
        [url        |-> PageUrl(i, style),
         values     |-> Items(i, sizes[i]),
         has_values |-> ~(keyless /\ sizes[i] = 0)]]

Chains ==
    { Chain(sizes, keyless, style) :
        sizes \in UNION { [1..n -> 0..MaxPageSize] : n \in 1..MaxPages },
        keyless \in BOOLEAN, style \in CursorStyles }

\* response.get("next") of page i of the chain.
NextOf(pages, i) == IF i < Len(pages) THEN pages[i + 1].url ELSE NoUrl

\* The page the service serves under an absolute URL, 0 when there is none.
PageAt(pages, url) ==
    IF \E i \in 1..Len(pages) : pages[i].url = url
    THEN CHOOSE i \in 1..Len(pages) : pages[i].url = url
    ELSE 0

\* What self.get can raise (every failure a GET ends with in SpecTransport).
GetFailures ==
    {"AuthenticationError", "PermissionError", "NotFoundError", "ConflictError",
     "BitbucketAPIError", "requests.RetryError", "requests.ConnectionError",
     "requests.JSONDecodeError"}

GetEvent(url, reply) == [ev |-> "GET", url |-> url, reply |-> reply]
SleepEvent == [ev |-> "sleep", url |-> NoUrl, reply |-> ""]

\* results.extend(values) with the arguments swapped.
extend_front(results, values) == values \o results

\* results.extend(response["values"])
extend(results, values) == results \o values

\* time.sleep(0.1) after every page.
pace_always(url) == <<SleepEvent>>

\* if url: time.sleep(0.1)
pace(url) == IF url # NoUrl THEN <<SleepEvent>> ELSE << >>

\* A loop that ends after its first page.
loop_once(url) == FALSE

\* while url:
loop_continues(url) == url # NoUrl

\* A failure of self.get swallowed, the items so far returned.
page_failed_partial(results, failure) == Returned(results)

\* self.get raises inside the loop: nothing catches it, the locals are lost.
page_failed(results, failure) == Raised(failure, "")

\* The endpoint that self.get is given for the next page.
parsed_url(w, cfg) ==
    IF w.is_first_request THEN w.url ELSE replace(w.url, base_url(cfg))

\* _request: url = f"{self.base_url}{endpoint}"
absolute_url(w, cfg) == base_url(cfg) \o parsed_url(w, cfg)

\* get_all_pages up to its loop.
get_all_pages ==
    /\ walk.pc = "idle"
    /\ walk' = [pc |-> IF loop_continues(Endpoint) THEN "loop" ELSE "done",
                url |-> Endpoint, is_first_request |-> TRUE,
                results |-> << >>, outcome |-> Returned(<< >>)]
    /\ UNCHANGED <<server, cmd, log, credVars, resolveVars, transportVars>>

\* One turn of the loop: the page is requested, then either self.get raises
\* or its values are appended, the cursor is taken and the pause is made.
FetchPage(reply) ==
    /\ walk.pc = "loop"
    /\ LET url == absolute_url(walk, config)
           i   == PageAt(server.pages, url)
       IN  /\ reply = "page" => i # 0
           /\ IF reply = "page"
              THEN LET response == server.pages[i]
                       results  == IF response.has_values
                                   THEN extend(walk.results, response.values)
                                   ELSE walk.results
                       next     == NextOf(server.pages, i)
                   IN  /\ walk' = [pc |-> IF loop_continues(next) THEN "loop" ELSE "done",
                                   url |-> next, is_first_request |-> FALSE,
                                   results |-> results,
                                   outcome |-> Returned(results)]
                       /\ log' = log \o <<GetEvent(url, "data")>> \o pace(next)
              ELSE /\ walk' = [walk EXCEPT !.pc = "done",
                                           !.outcome = page_failed(walk.results, reply)]
                   /\ log' = Append(log, GetEvent(url, reply))
    /\ UNCHANGED <<server, cmd, credVars, resolveVars, transportVars>>

InitPages ==
    /\ config \in { [DefaultConfigLiteral EXCEPT !["api"]["base_url"] = b,
                                                 !["auth"]["repo_token"] = "rt"] :
                    b \in BaseUrls }
    /\ env = [s \in EnvSlots |-> None]
    /\ result = [kind |-> "none", headers |-> NoHeaders, message |-> << >>]
    /\ IdleCred
    /\ IdleTransport
    /\ server \in { [pages |-> c] : c \in Chains }
    /\ walk = IdleWalk
    /\ cmd = IdleCmd
    /\ log = << >>

NextPages ==
    \/ get_all_pages
    \/ \E reply \in {"page"} \cup GetFailures : FetchPage(reply)

SpecPages == InitPages /\ [][NextPages]_vars

----------------------------------------------------------------------------
(* commands/create.py : create_pr *)

\* Most reviewer names one command resolves, command line and configured
\* defaults together.
MaxReviewers == 2

\* Texts are sequences of characters. An argument left out is the empty
\* text: create_pr and validate_create_options only test `if not x` / `if x`,
\* which None and "" answer alike.
NoText == << >>
Space == " "

\* [a-zA-Z0-9._/-], by one character of each kind.
branch_characters == {"f", "X", "1", ".", "_", "/", "-"}

Titles == {NoText, <<Space>>, <<"T">>}
Branches == {NoText, <<"f", "/", "1">>, <<"f", Space, "1">>, <<"-", "f">>}
Destinations == {NoText, <<"X">>, <<"X", Space>>}
Usernames == {"alice", "bob"}

NameLists(n) == UNION { [1..k -> Usernames] : k \in 0..n }

RECURSIVE strip(_)
\* str.strip()
strip(text) ==
    IF text # << >> /\ text[1] = Space THEN strip(Tail(text))
    ELSE IF text # << >> /\ text[Len(text)] = Space
         THEN strip(SubSeq(text, 1, Len(text) - 1))
         ELSE text

\* re.match(r"^[a-zA-Z0-9._/-]+$", name) and not name.startswith("-")
is_valid_branch_name(name) ==
    /\ name # << >>
    /\ \A i \in 1..Len(name) : name[i] \in branch_characters
    /\ name[1] # "-"

\* validate_create_options: the errors it collects; it raises ValidationError
\* when there is one. The reviewers are taken as already split on commas.
validate_create_options(args) ==
    (IF args.title # NoText /\ Len(strip(args.title)) = 0
     THEN {"Title cannot be empty"} ELSE {})
    \cup (IF args.source # NoText /\ ~is_valid_branch_name(args.source)
          THEN {"Invalid source branch name"} ELSE {})
    \cup (IF args.dest # NoText /\ ~is_valid_branch_name(args.dest)
          THEN {"Invalid destination branch name"} ELSE {})

CreateArgs ==
    [title : Titles, source : Branches, dest : Destinations,
     reviewers : NameLists(MaxReviewers), close_branch : BOOLEAN]

\* get_current_branch(): the branch git reports, or a failure.
GitFails == [ok |-> FALSE, branch |-> NoText]
Detections == {GitFails, [ok |-> TRUE, branch |-> <<"f", "/", "1">>]}

\* What get_user and the final POST may fail with.
LookupFailures == {"NotFoundError", "AuthenticationError"}
PostFailures == {"ConflictError", "requests.ConnectionError"}

PostEvent(url, reply) == [ev |-> "POST", url |-> url, reply |-> reply]

Uuid(username) == "{" \o username \o "}"
UserUrl(username) == <<"/users/", username>>

\* create_pr up to its first request: source and destination defaults, the
\* title prompt, and the names to resolve (command line, then configured).
\* validate_create_options is called nowhere.
start_create_pr(args, detected, typed) ==
    /\ Len(args.reviewers) + Len(config["defaults"]["reviewers"]) <= MaxReviewers
    /\ (args.source # NoText) => detected = GitFails     \* git is not asked
    /\ (args.title # NoText) => typed = <<"T">>          \* no prompt is made
    /\ typed # NoText                                    \* click.prompt insists
    /\ IF args.source = NoText /\ ~detected.ok
       THEN cmd' = [op |-> "create_pr", pc |-> "done", args |-> args,
                    title |-> args.title, source |-> NoText, dest |-> args.dest,
                    names |-> << >>, reviewer_list |-> << >>, warnings |-> 0,
                    payload |-> << >>,
                    outcome |-> Raised("ValidationError",
                                       "Could not detect current branch. Please specify --source")]
       ELSE LET names == args.reviewers \o config["defaults"]["reviewers"]
            IN  cmd' = [op |-> "create_pr",
                        pc |-> IF names = << >> THEN "post" ELSE "resolve",
                        args |-> args,
                        title |-> IF args.title = NoText THEN typed ELSE args.title,
                        source |-> IF args.source = NoText THEN detected.branch
                                   ELSE args.source,
                        dest |-> IF args.dest = NoText
                                 THEN <<config["defaults"]["default_branch"]>>
                                 ELSE args.dest,
                        names |-> names, reviewer_list |-> << >>, warnings |-> 0,
                        payload |-> << >>,
                        outcome |-> Returned(<< >>)]
    /\ UNCHANGED <<server, walk, log, credVars, resolveVars, transportVars>>

\* create_pr called with any arguments, in any repository, by any user.
create_pr ==
    /\ cmd.pc = "idle"
    /\ \E args \in CreateArgs, detected \in Detections, typed \in Titles :
          start_create_pr(args, detected, typed)

\* _resolve_reviewers, except Exception: a warning, and the name is used.
resolve_failed(c, username, failure) ==
    [c EXCEPT !.pc = IF Len(c.names) = 1 THEN "post" ELSE "resolve",
              !.names = Tail(c.names),
              !.reviewer_list = Append(c.reviewer_list, [username |-> username]),
              !.warnings = c.warnings + 1]

\* One turn of the loop of _resolve_reviewers: api.get_user(username).
resolve_reviewer(reply) ==
    /\ cmd.op = "create_pr"
    /\ cmd.pc = "resolve"
    /\ LET username == Head(cmd.names)
       IN  /\ log' = Append(log, GetEvent(UserUrl(username), reply))
           /\ IF reply = "data"
              THEN cmd' = [cmd EXCEPT
                             !.pc = IF Len(cmd.names) = 1 THEN "post" ELSE "resolve",
                             !.names = Tail(cmd.names),
                             !.reviewer_list =
                                 Append(cmd.reviewer_list, [uuid |-> Uuid(username)])]
              ELSE cmd' = resolve_failed(cmd, username, reply)
    /\ UNCHANGED <<server, walk, credVars, resolveVars, transportVars>>

RECURSIVE unique_reviewers(_, _)
\* The "Remove duplicates" loop: an entry with a uuid is kept the first time
\* its uuid is seen, an entry with only a username is always kept.
unique_reviewers(reviewer_list, seen_uuids) ==
    IF reviewer_list = << >> THEN << >>
    ELSE LET reviewer == Head(reviewer_list)
         IN  IF "uuid" \in DOMAIN reviewer
             THEN IF reviewer.uuid \in seen_uuids
                  THEN unique_reviewers(Tail(reviewer_list), seen_uuids)
                  ELSE <<reviewer>> \o unique_reviewers(Tail(reviewer_list),
                                                        seen_uuids \cup {reviewer.uuid})
             ELSE <<reviewer>> \o unique_reviewers(Tail(reviewer_list), seen_uuids)

\* The reviewers create_pr hands over: deduplicated only when the
\* configuration names default reviewers.
final_reviewers(c, cfg) ==
    IF cfg["defaults"]["reviewers"] # << >>
    THEN unique_reviewers(c.reviewer_list, {})
    ELSE c.reviewer_list

\* create_pull_request writing both optional fields whatever they hold.
create_payload_all_fields(title, source, dest, reviewers, close_source_branch) ==
    [title |-> title, description |-> "",
     source |-> [branch |-> [name |-> source]],
     destination |-> [branch |-> [name |-> dest]],
     close_source_branch |-> close_source_branch,
     reviewers |-> reviewers]

\* BitbucketAPI.create_pull_request: the payload it posts.
create_payload(title, source, dest, reviewers, close_source_branch) ==
    LET base == [title |-> title, description |-> "",
                 source |-> [branch |-> [name |-> source]],
                 destination |-> [branch |-> [name |-> dest]]]
        closing == IF close_source_branch
                   THEN [close_source_branch |-> TRUE] ELSE << >>
        reviewing == IF reviewers # << >> THEN [reviewers |-> reviewers] ELSE << >>
    IN  [k \in DOMAIN base \cup DOMAIN closing \cup DOMAIN reviewing |->
            IF k \in DOMAIN base THEN base[k]
            ELSE IF k \in DOMAIN closing THEN closing[k] ELSE reviewing[k]]

\* The end of create_pr: the duplicates go, the pull request is posted.
create_pull_request(reply) ==
    /\ cmd.op = "create_pr"
    /\ cmd.pc = "post"
    /\ log' = Append(log, PostEvent(Endpoint, reply))
    /\ cmd' = [cmd EXCEPT
                 !.pc = "done",
                 !.payload = create_payload(cmd.title, cmd.source, cmd.dest,
                                 final_reviewers(cmd, config),
                                 cmd.args.close_branch
                                     \/ config["defaults"]["delete_source_branch"]),
                 !.outcome = IF reply = "data" THEN Returned([id |-> 1])
                             ELSE Raised(reply, "")]
    /\ UNCHANGED <<server, walk, credVars, resolveVars, transportVars>>

InitCreate ==
    /\ config \in { [DefaultConfigLiteral EXCEPT !["defaults"]["reviewers"] = r,
                                                 !["defaults"]["delete_source_branch"] = b,
                                                 !["auth"]["repo_token"] = "rt"] :
                    r \in NameLists(MaxReviewers), b \in BOOLEAN }
    /\ env = [s \in EnvSlots |-> None]
    /\ result = [kind |-> "none", headers |-> NoHeaders, message |-> << >>]
    /\ IdleCred
    /\ IdleTransport
    /\ IdleLayers

NextCreate ==
    \/ create_pr
    \/ \E reply \in {"data"} \cup LookupFailures : resolve_reviewer(reply)
    \/ \E reply \in {"data"} \cup PostFailures : create_pull_request(reply)

SpecCreate == InitCreate /\ [][NextCreate]_vars

----------------------------------------------------------------------------
(* auth.py : validate_auth *)

Valid(user) == [kind |-> "valid", user |-> user, message |-> << >>]

\* Every raise inside the try of validate_auth ends in one of its two
\* except clauses, which raise AuthenticationError around the text of it.
NetworkError(text) ==
    [kind |-> "AuthenticationError", user |-> << >>,
     message |-> <<"Network error during authentication: ">> \o text]
ValidationFailed(text) ==
    [kind |-> "AuthenticationError", user |-> << >>,
     message |-> <<"Authentication validation failed: ">> \o text]

RepositoryTokenUser ==
    [username |-> "repository-token-user",
     display_name |-> "Repository Token User", uuid |-> None]

\* user_data.get(key)
Get(document, key) == IF key \in DOMAIN document THEN document[key] ELSE None

\* validate_auth asking the identity endpoint whatever the credential.
needs_probe_always(cfg, environ) == TRUE

\* if repo_token: return ... -- the identity endpoint is asked otherwise.
needs_probe(cfg, environ) ==
    ~Truthy(Or(cfg["auth"]["repo_token"], environ["repo_token"]))

\* No request made: the local `response` is never bound.
NoResponse == [kind |-> "none", status |-> 0, retry_after |-> FALSE, body |-> ""]

\* validate_auth with the status left out of the message of a refused probe.
probe_result_no_status(r) ==
    CASE r.kind # "response" -> NetworkError(<<r.kind>>)
      [] r.kind = "response" /\ r.status # 200 ->
            ValidationFailed(<<"Invalid credentials. Check your username and app password.">>)
      [] r.kind = "response" /\ r.status = 200 ->
            IF Decodable(r.body)
            THEN Valid([username |-> None, display_name |-> None, uuid |-> None])
            ELSE NetworkError(<<"requests.JSONDecodeError">>)

\* What validate_auth makes of the answer of requests.get(f"{base_url}/user").
probe_result(r) ==
    CASE r.kind # "response" -> NetworkError(<<r.kind>>)
      [] r.kind = "response" /\ r.status = 401 ->
            ValidationFailed(<<"Invalid credentials. Check your username and app password.">>)
      [] r.kind = "response" /\ r.status \notin {200, 401} ->
            ValidationFailed(<<"Authentication failed: ", ToString(r.status), " ",
                               Reason(r.status)>>)
      [] r.kind = "response" /\ r.status = 200 ->
            IF Decodable(r.body)
            THEN LET user_data == Json(r.body)
                 IN  Valid([username |-> Get(user_data, "username"),
                            display_name |-> Get(user_data, "display_name"),
                            uuid |-> Get(user_data, "uuid")])
            ELSE NetworkError(<<"requests.JSONDecodeError">>)

ProbeEvent(cfg, r) ==
    GetEvent(<<cfg["api"]["base_url"], "/user">>,
             IF r.kind = "response" THEN ToString(r.status) ELSE r.kind)

\* validate_auth(config), from its call to its return or raise.
validate_auth ==
    /\ cmd.pc = "idle"
    /\ LET headers == get_auth_headers(config, env)
       IN  IF headers.kind = "AuthenticationError"
           THEN /\ cmd' = [op |-> "validate_auth", pc |-> "done",
                           response |-> NoResponse,
                           outcome |-> ValidationFailed(headers.message)]
                /\ UNCHANGED log
           ELSE IF ~needs_probe(config, env)
           THEN /\ cmd' = [op |-> "validate_auth", pc |-> "done",
                           response |-> NoResponse,
                           outcome |-> Valid(RepositoryTokenUser)]
                /\ UNCHANGED log
           ELSE \E r \in AttemptResults :
                   /\ cmd' = [op |-> "validate_auth", pc |-> "done",
                              response |-> r,
                              outcome |-> probe_result(r)]
                   /\ log' = Append(log, ProbeEvent(config, r))
    /\ UNCHANGED <<server, walk, credVars, resolveVars, transportVars>>

InitValidate ==
    /\ config \in ResolveConfigs
    /\ env \in Environments
    /\ result = [kind |-> "none", headers |-> NoHeaders, message |-> << >>]
    /\ IdleCred
    /\ IdleTransport
    /\ IdleLayers

NextValidate == validate_auth

SpecValidate == InitValidate /\ [][NextValidate]_vars

----------------------------------------------------------------------------
(* api.py : get_paginated, one page with its pagination fields *)

PageKeys == {"values", "page", "pagelen", "size", "next", "previous"}

\* What a listing carries under a key when it carries the key.
Sample(key, values) ==
    CASE key = "values"   -> values
      [] key = "page"     -> 2
      [] key = "pagelen"  -> 50
      [] key = "size"     -> 7
      [] key = "next"     -> Cursor(3, "plain")
      [] key = "previous" -> PageUrl(1, "plain")

\* The decoded bodies of a listing: any of the keys may be missing.
Bodies ==
    { [k \in keys |-> Sample(k, values)] :
        keys \in SUBSET PageKeys, values \in {<< >>, Items(2, 2)} }

\* dict.get(key, default)
GetOr(document, key, default) ==
    IF key \in DOMAIN document THEN document[key] ELSE default

\* get_paginated with 0 as the default page number.
paginated_page_zero(response) ==
    [values   |-> GetOr(response, "values", << >>),
     page     |-> GetOr(response, "page", 0),
     pagelen  |-> GetOr(response, "pagelen", 10),
     size     |-> GetOr(response, "size", 0),
     next     |-> GetOr(response, "next", NoUrl),
     previous |-> GetOr(response, "previous", NoUrl)]

\* The dict get_paginated returns for a decoded body; an absent cursor is
\* None, written NoUrl as in get_all_pages.
paginated(response) ==
    [values   |-> GetOr(response, "values", << >>),
     page     |-> GetOr(response, "page", 1),
     pagelen  |-> GetOr(response, "pagelen", 10),
     size     |-> GetOr(response, "size", 0),
     next     |-> GetOr(response, "next", NoUrl),
     previous |-> GetOr(response, "previous", NoUrl)]

\* get_paginated(endpoint): self.get, then the page built from the body.
get_paginated(reply) ==
    /\ cmd.pc = "idle"
    /\ log' = Append(log, GetEvent(base_url(config) \o Endpoint, reply))
    /\ cmd' = [op |-> "get_paginated", pc |-> "done",
               outcome |-> IF reply = "data"
                           THEN Returned(paginated(server.body))
                           ELSE Raised(reply, "")]
    /\ UNCHANGED <<server, walk, credVars, resolveVars, transportVars>>

InitPaginated ==
    /\ config \in { [DefaultConfigLiteral EXCEPT !["api"]["base_url"] = b,
                                                 !["auth"]["repo_token"] = "rt"] :
                    b \in BaseUrls }
    /\ env = [s \in EnvSlots |-> None]
    /\ result = [kind |-> "none", headers |-> NoHeaders, message |-> << >>]
    /\ IdleCred
    /\ IdleTransport
    /\ server \in { [pages |-> << >>, body |-> b] : b \in Bodies }
    /\ walk = IdleWalk
    /\ cmd = IdleCmd
    /\ log = << >>

NextPaginated == \E reply \in {"data"} \cup GetFailures : get_paginated(reply)

SpecPaginated == InitPaginated /\ [][NextPaginated]_vars

----------------------------------------------------------------------------
(* api.py : add_comment *)

\* Keyword arguments are a mapping from the names passed with a value other
\* than None; a line is an integer (click type=int), a file a string.
NumberKeys == {"line", "from_line", "to_line", "reply_to"}
LineNumbers == {0, 3, 5, 7}
Files == {"", "a.py"}

\* if kwargs.get(key): None, "" and 0 are falsy.
IsSet(kwargs, key) ==
    /\ key \in DOMAIN kwargs
    /\ kwargs[key] # (IF key = "file" THEN "" ELSE 0)

\* dict assignment d[k] = v for the keys of e.
Update(d, e) ==
    [k \in DOMAIN d \cup DOMAIN e |-> IF k \in DOMAIN e THEN e[k] ELSE d[k]]

NoEntries == [k \in {} |-> 0]

CommentKwargs ==
    { Update(f, n) :
        f \in {NoEntries} \cup { [file |-> v] : v \in Files },
        n \in UNION { [keys -> LineNumbers] : keys \in SUBSET NumberKeys } }

\* add_comment with the single line written after the range.
add_comment_payload_line_last(message, kwargs) ==
    LET multi  == IsSet(kwargs, "from_line") /\ IsSet(kwargs, "to_line")
        to     == Update(Update([path |-> kwargs["file"]],
                                IF multi THEN [line |-> kwargs["to_line"]] ELSE NoEntries),
                         IF IsSet(kwargs, "line") THEN [line |-> kwargs["line"]]
                         ELSE NoEntries)
        inline == Update([to |-> to],
                         IF multi
                         THEN [from |-> [path |-> kwargs["file"],
                                         line |-> kwargs["from_line"]]]
                         ELSE NoEntries)
    IN  Update(Update([content |-> [raw |-> message]],
                      IF IsSet(kwargs, "file") THEN [inline |-> inline] ELSE NoEntries),
               IF IsSet(kwargs, "reply_to")
               THEN [parent |-> [id |-> kwargs["reply_to"]]] ELSE NoEntries)

\* The payload add_comment posts.
add_comment_payload(message, kwargs) ==
    LET multi  == IsSet(kwargs, "from_line") /\ IsSet(kwargs, "to_line")
        to     == Update(Update([path |-> kwargs["file"]],
                                IF IsSet(kwargs, "line") THEN [line |-> kwargs["line"]]
                                ELSE NoEntries),
                         IF multi THEN [line |-> kwargs["to_line"]] ELSE NoEntries)
        inline == Update([to |-> to],
                         IF multi
                         THEN [from |-> [path |-> kwargs["file"],
                                         line |-> kwargs["from_line"]]]
                         ELSE NoEntries)
    IN  Update(Update([content |-> [raw |-> message]],
                      IF IsSet(kwargs, "file") THEN [inline |-> inline] ELSE NoEntries),
               IF IsSet(kwargs, "reply_to")
               THEN [parent |-> [id |-> kwargs["reply_to"]]] ELSE NoEntries)

WriteFailures == {"AuthenticationError", "NotFoundError", "requests.ConnectionError"}

CommentsEndpoint == <<"/repositories/ws/repo/pullrequests/1/comments">>

\* add_comment(workspace, repo, pr_id, message, **kwargs)
add_comment(kwargs, reply) ==
    /\ cmd.pc = "idle"
    /\ log' = Append(log, PostEvent(CommentsEndpoint, reply))
    /\ cmd' = [op |-> "add_comment", pc |-> "done", kwargs |-> kwargs,
               payload |-> add_comment_payload("m", kwargs),
               outcome |-> IF reply = "data" THEN Returned([id |-> 1])
                           ELSE Raised(reply, "")]
    /\ UNCHANGED <<server, walk, credVars, resolveVars, transportVars>>

InitComment ==
    /\ config = [DefaultConfigLiteral EXCEPT !["auth"]["repo_token"] = "rt"]
    /\ env = [s \in EnvSlots |-> None]
    /\ result = [kind |-> "none", headers |-> NoHeaders, message |-> << >>]
    /\ IdleCred
    /\ IdleTransport
    /\ IdleLayers

NextComment ==
    \E kwargs \in CommentKwargs, reply \in {"data"} \cup WriteFailures :
        add_comment(kwargs, reply)

SpecComment == InitComment /\ [][NextComment]_vars

----------------------------------------------------------------------------
(* api.py : list_pull_requests *)

\* The values a filter may be passed with; a key left out is None.
ListSamples(key) ==
    CASE key = "state"     -> {"", "OPEN"}
      [] key = "author"    -> {"", "alice"}
      [] key = "reviewer"  -> {"", "bob"}
      [] key = "limit"     -> {0, 25}
      [] key = "fetch_all" -> BOOLEAN

OneArg(key) == {NoEntries} \cup { [k \in {key} |-> v] : v \in ListSamples(key) }

ListKwargs ==
    { Update(Update(Update(Update(s, a), r), l), f) :
        s \in OneArg("state"), a \in OneArg("author"), r \in OneArg("reviewer"),
        l \in OneArg("limit"), f \in OneArg("fetch_all") }

\* if kwargs.get(key): None, "", 0 and False are falsy.
Given(kwargs, key) ==
    /\ key \in DOMAIN kwargs
    /\ CASE key = "limit"     -> kwargs[key] # 0
         [] key = "fetch_all" -> kwargs[key]
         [] OTHER             -> kwargs[key] # ""

\* f'author.username="{...}"' and f'reviewers.username="{...}"'
AuthorCondition(kwargs) == <<"author.username=\"", kwargs["author"], "\"">>
ReviewerCondition(kwargs) == <<"reviewers.username=\"", kwargs["reviewer"], "\"">>

RECURSIVE Join(_, _)
\* separator.join(parts)
Join(parts, separator) ==
    IF parts = << >> THEN << >>
    ELSE IF Len(parts) = 1 THEN parts[1]
         ELSE parts[1] \o <<separator>> \o Join(Tail(parts), separator)

\* list_pull_requests with the state written into the query expression.
list_params_state_in_query(kwargs) ==
    LET query_parts ==
            (IF Given(kwargs, "state") THEN <<<<"state=\"", kwargs["state"], "\"">>>>
             ELSE << >>)
            \o (IF Given(kwargs, "author") THEN <<AuthorCondition(kwargs)>> ELSE << >>)
            \o (IF Given(kwargs, "reviewer") THEN <<ReviewerCondition(kwargs)>> ELSE << >>)
    IN  Update(IF Given(kwargs, "limit") THEN [pagelen |-> kwargs["limit"]]
               ELSE NoEntries,
               IF query_parts # << >> THEN [q |-> Join(query_parts, " AND ")]
               ELSE NoEntries)

\* The params list_pull_requests builds.
list_params(kwargs) ==
    LET query_parts ==
            (IF Given(kwargs, "author") THEN <<AuthorCondition(kwargs)>> ELSE << >>)
            \o (IF Given(kwargs, "reviewer") THEN <<ReviewerCondition(kwargs)>> ELSE << >>)
    IN  Update(Update(IF Given(kwargs, "state") THEN [state |-> kwargs["state"]]
                      ELSE NoEntries,
                      IF Given(kwargs, "limit") THEN [pagelen |-> kwargs["limit"]]
                      ELSE NoEntries),
               IF query_parts # << >> THEN [q |-> Join(query_parts, " AND ")]
               ELSE NoEntries)

\* The listing the service holds: two pages, the first as get_paginated
\* reads it.
Listing == Chain(<<2, 1>>, FALSE, "plain")
ListingBody == [values |-> Listing[1].values, next |-> Listing[2].url]

\* list_pull_requests: the params, then get_all_pages (its loop follows as
\* FetchPage) or get_paginated and the values of its page.
list_pull_requests(kwargs, reply) ==
    /\ cmd.pc = "idle"
    /\ IF Given(kwargs, "fetch_all")
       THEN /\ reply = "data"
            /\ cmd' = [op |-> "list_pull_requests", pc |-> "walk", kwargs |-> kwargs,
                       params |-> list_params(kwargs), outcome |-> Returned(<< >>)]
            /\ walk' = [pc |-> "loop", url |-> Endpoint, is_first_request |-> TRUE,
                        results |-> << >>, outcome |-> Returned(<< >>)]
            /\ UNCHANGED log
       ELSE /\ cmd' = [op |-> "list_pull_requests", pc |-> "done", kwargs |-> kwargs,
                       params |-> list_params(kwargs),
                       outcome |-> IF reply = "data"
                                   THEN Returned(paginated(server.body)["values"])
                                   ELSE Raised(reply, "")]
            /\ log' = Append(log, GetEvent(base_url(config) \o Endpoint, reply))
            /\ UNCHANGED walk
    /\ UNCHANGED <<server, credVars, resolveVars, transportVars>>

InitList ==
    /\ config = [DefaultConfigLiteral EXCEPT !["api"]["base_url"] = <<Host>>,
                                             !["auth"]["repo_token"] = "rt"]
    /\ env = [s \in EnvSlots |-> None]
    /\ result = [kind |-> "none", headers |-> NoHeaders, message |-> << >>]
    /\ IdleCred
    /\ IdleTransport
    /\ server = [pages |-> Listing, body |-> ListingBody]
    /\ walk = IdleWalk
    /\ cmd = IdleCmd
    /\ log = << >>

NextList ==
    \/ \E kwargs \in ListKwargs, reply \in {"data"} \cup GetFailures :
          list_pull_requests(kwargs, reply)
    \/ \E reply \in {"page"} \cup GetFailures : FetchPage(reply)

SpecList == InitList /\ [][NextList]_vars

----------------------------------------------------------------------------
(* auth.py : is_authenticated *)

\* is_authenticated taking a username or an app password alone.
is_authenticated_either(cfg, environ) ==
    LET auth == cfg["auth"]
    IN  \/ Truthy(Or(auth["repo_token"], environ["repo_token"]))
        \/ Truthy(Or(auth["oauth_token"], environ["oauth_token"]))
        \/ Truthy(Or(auth["username"], environ["username"]))
        \/ Truthy(Or(auth["app_password"], environ["app_password"]))

\* is_authenticated(config)
is_authenticated(cfg, environ) ==
    LET auth         == cfg["auth"]
        repo_token   == Or(auth["repo_token"], environ["repo_token"])
        oauth_token  == Or(auth["oauth_token"], environ["oauth_token"])
        username     == Or(auth["username"], environ["username"])
        app_password == Or(auth["app_password"], environ["app_password"])
    IN  IF Truthy(repo_token) THEN TRUE
        ELSE IF Truthy(oauth_token) THEN TRUE
        ELSE Truthy(username) /\ Truthy(app_password)

IsAuthenticated ==
    /\ cmd.pc = "idle"
    /\ cmd' = [op |-> "is_authenticated", pc |-> "done",
               outcome |-> is_authenticated(config, env)]
    /\ UNCHANGED <<server, walk, log, credVars, resolveVars, transportVars>>

NextAuthenticated ==
    \/ GetAuthHeaders
    \/ IsAuthenticated

SpecAuthenticated == InitResolve /\ [][NextAuthenticated]_vars

----------------------------------------------------------------------------
(* cli.py : the commands and the validate_auth decorator *)

\* The commands defined with @validate_auth, and config, defined without.
GuardedCommands ==
    {"create", "list", "show", "approve", "unapprove", "decline", "merge", "comment"}
Commands == GuardedCommands \cup {"config"}

\* The decorator list of cli.py with merge left unguarded.
decorated_without_merge(name) == name \in GuardedCommands \ {"merge"}

\* Whether the command function is wrapped by validate_auth.
decorated(name) == name \in GuardedCommands

\* The method of the first request a command's body makes.
FirstMethod(name) ==
    CASE name \in {"list", "show"} -> "GET"
      [] name = "unapprove"        -> "DELETE"
      [] OTHER                     -> "POST"

HttpEvent(method, url, reply) == [ev |-> method, url |-> url, reply |-> reply]

\* One bb-pr command from the wrapper to sys.exit: the wrapper lets config
\* through, stops the others when is_authenticated() is false, and the body
\* then makes its first request; a failure in the body exits with 1.
run_command(name) ==
    /\ cmd.pc = "idle"
    /\ IF decorated(name) /\ name # "config" /\ ~is_authenticated(config, env)
       THEN /\ cmd' = [op |-> name, pc |-> "done", ran |-> FALSE, exit_code |-> 1]
            /\ UNCHANGED log
       ELSE IF name = "config"
       THEN /\ \E code \in {0, 1} :
                   cmd' = [op |-> name, pc |-> "done", ran |-> TRUE, exit_code |-> code]
            /\ UNCHANGED log
       ELSE \E reply \in {"data", "AuthenticationError", "NotFoundError"} :
               LET headers == get_auth_headers(config, env)
               IN  IF headers.kind = "AuthenticationError"
                   THEN /\ cmd' = [op |-> name, pc |-> "done", ran |-> TRUE,
                                   exit_code |-> 1]
                        /\ UNCHANGED log
                   ELSE /\ cmd' = [op |-> name, pc |-> "done", ran |-> TRUE,
                                   exit_code |-> IF reply = "data" THEN 0 ELSE 1]
                        /\ log' = Append(log, HttpEvent(FirstMethod(name),
                                                        <<"/repositories/">>, reply))
    /\ UNCHANGED <<server, walk, credVars, resolveVars, transportVars>>

NextCli == \E name \in Commands : run_command(name)

SpecCli == InitResolve /\ [][NextCli]_vars

----------------------------------------------------------------------------
(* commands/update.py : update_pr *)

\* A reviewer as the service lists it on a pull request.
Reviewer(username) == [username |-> username, uuid |-> Uuid(username)]

\* The pull requests update_pr may read: up to MaxReviewers reviewers, or no
\* reviewers key at all.
PullRequests ==
    {[id |-> 1]}
    \cup { [id |-> 1, reviewers |-> [i \in DOMAIN names |-> Reviewer(names[i])]] :
             names \in NameLists(MaxReviewers) }

UpdateArgs ==
    [title : {None, "T"}, description : {None, "d"}, dest : {None, "main"},
     add_reviewer : {None} \cup Usernames, remove_reviewer : {None} \cup Usernames]

PullRequestUrl == <<"/repositories/ws/repo/pullrequests/1">>

PutEvent(url, reply) == [ev |-> "PUT", url |-> url, reply |-> reply]

RECURSIVE without(_, _)
\* [r for r in reviewers if r.get("username") != remove_reviewer]
without(reviewers, username) ==
    IF reviewers = << >> THEN << >>
    ELSE IF "username" \in DOMAIN Head(reviewers) /\ Head(reviewers)["username"] = username
         THEN without(Tail(reviewers), username)
         ELSE <<Head(reviewers)>> \o without(Tail(reviewers), username)

\* BitbucketAPI.update_pull_request: the payload it puts; reviewers is the
\* list handed over, or absent when update_pr hands over None.
update_payload(args, reviewers, has_reviewers) ==
    Update(Update(Update(
        IF Truthy(args.title) THEN [title |-> args.title] ELSE NoEntries,
        IF args.description # None THEN [description |-> args.description]
        ELSE NoEntries),
        IF Truthy(args.dest)
        THEN [destination |-> [branch |-> [name |-> args.dest]]] ELSE NoEntries),
        IF has_reviewers /\ reviewers # << >> THEN [reviewers |-> reviewers]
        ELSE NoEntries)

\* update_pr up to the answer of api.get_pull_request.
update_pr(args, reply) ==
    /\ cmd.pc = "idle"
    /\ log' = Append(log, GetEvent(PullRequestUrl, reply))
    /\ cmd' = [op |-> "update_pr",
               pc |-> IF reply # "data" THEN "done"
                      ELSE IF Truthy(args.add_reviewer) THEN "lookup" ELSE "put",
               args |-> args,
               reviewers |-> IF reply = "data" THEN GetOr(server.pr, "reviewers", << >>)
                             ELSE << >>,
               payload |-> NoEntries,
               outcome |-> IF reply = "data" THEN Returned(<< >>) ELSE Raised(reply, "")]
    /\ UNCHANGED <<server, walk, credVars, resolveVars, transportVars>>

\* if add_reviewer: api.get_user inside try / bare except.
update_lookup(reply) ==
    /\ cmd.op = "update_pr"
    /\ cmd.pc = "lookup"
    /\ log' = Append(log, GetEvent(UserUrl(cmd.args.add_reviewer), reply))
    /\ cmd' = [cmd EXCEPT
                 !.pc = "put",
                 !.reviewers = Append(cmd.reviewers,
                                      IF reply = "data"
                                      THEN [uuid |-> Uuid(cmd.args.add_reviewer)]
                                      ELSE [username |-> cmd.args.add_reviewer])]
    /\ UNCHANGED <<server, walk, credVars, resolveVars, transportVars>>

\* The removal, then api.update_pull_request and its PUT.
update_put(reply) ==
    /\ cmd.op = "update_pr"
    /\ cmd.pc = "put"
    /\ LET reviewers == IF Truthy(cmd.args.remove_reviewer)
                        THEN without(cmd.reviewers, cmd.args.remove_reviewer)
                        ELSE cmd.reviewers
       IN  cmd' = [cmd EXCEPT
                     !.pc = "done",
                     !.reviewers = reviewers,
                     !.payload = update_payload(cmd.args, reviewers,
                                     Truthy(cmd.args.add_reviewer)
                                         \/ Truthy(cmd.args.remove_reviewer)),
                     !.outcome = IF reply = "data" THEN Returned([id |-> 1])
                                 ELSE Raised(reply, "")]
    /\ log' = Append(log, PutEvent(PullRequestUrl, reply))
    /\ UNCHANGED <<server, walk, credVars, resolveVars, transportVars>>

InitUpdate ==
    /\ config = [DefaultConfigLiteral EXCEPT !["auth"]["repo_token"] = "rt"]
    /\ env = [s \in EnvSlots |-> None]
    /\ result = [kind |-> "none", headers |-> NoHeaders, message |-> << >>]
    /\ IdleCred
    /\ IdleTransport
    /\ server \in { [pages |-> << >>, pr |-> p] : p \in PullRequests }
    /\ walk = IdleWalk
    /\ cmd = IdleCmd
    /\ log = << >>

NextUpdate ==
    \/ \E args \in UpdateArgs, reply \in {"data", "NotFoundError"} : update_pr(args, reply)
    \/ \E reply \in {"data"} \cup LookupFailures : update_lookup(reply)
    \/ \E reply \in {"data"} \cup PostFailures : update_put(reply)

SpecUpdate == InitUpdate /\ [][NextUpdate]_vars

----------------------------------------------------------------------------
(* Properties of the credential store *)

\* The auth group as the configuration file stores it.
StoredAuth(f) ==
    IF f.exists /\ "auth" \in DOMAIN f.content THEN f.content["auth"] ELSE NoAuth

\* The schemes whose secrets an auth group holds.
SchemesOf(auth) ==
    {s \in {"RepoToken", "OAuthToken", "BasicAuth"} :
        \/ s = "RepoToken"  /\ Truthy(auth["repo_token"])
        \/ s = "OAuthToken" /\ Truthy(auth["oauth_token"])
        \/ s = "BasicAuth"  /\ (Truthy(auth["username"]) \/ Truthy(auth["app_password"]))}

\* C1 as stated: after any sequence of set_auth and clear_auth calls the
\* stored configuration holds the secrets of at most one scheme.
C1_AtMostOneScheme == Cardinality(SchemesOf(StoredAuth(file))) <= 1

\* C1 amended: set_auth with a repository token stores it and clears what was
\* stored before for the other two schemes, keeping only what the same call
\* carries for them; set_auth with an OAuth token stores it, clears username
\* and app-password and leaves a stored repository token; set_auth with
\* neither token leaves both stored tokens; clear_auth leaves every slot absent.
C1_ClearingRules ==
    [][ LET a   == call'.args
            old == load_config(file, DEFAULT_CONFIG).config["auth"]
            new == StoredAuth(file')
        IN  /\ (call'.op = "set_auth" /\ Truthy(a.repo_token)) =>
                  /\ new["repo_token"] = a.repo_token
                  /\ new["oauth_token"] =
                        (IF Truthy(a.oauth_token) THEN a.oauth_token ELSE None)
                  /\ new["username"] \in {None, a.username}
                  /\ new["app_password"] \in {None, a.app_password}
            /\ (call'.op = "set_auth" /\ Truthy(a.oauth_token)) =>
                  /\ new["oauth_token"] = a.oauth_token
                  /\ new["username"] = None
                  /\ new["app_password"] = None
                  /\ (~Truthy(a.repo_token) => new["repo_token"] = old["repo_token"])
            /\ (call'.op = "set_auth" /\ ~Truthy(a.repo_token)
                                      /\ ~Truthy(a.oauth_token)) =>
                  /\ new["repo_token"] = old["repo_token"]
                  /\ new["oauth_token"] = old["oauth_token"]
            /\ (call'.op = "clear_auth" => new = NoAuth) ]_vars

\* A set_auth call carrying a repository token and a username has left the
\* secrets of two schemes in the store.
C1_Witness ==
    /\ call.op = "set_auth"
    /\ Truthy(call.args.repo_token)
    /\ Truthy(call.args.username)
    /\ SchemesOf(StoredAuth(file)) = {"RepoToken", "BasicAuth"}

\* C2: after set_auth with an OAuth token, the stored username and
\* app-password are both absent, whatever the call's other arguments.
C2_OAuthClearsBasic ==
    (call.op = "set_auth" /\ Truthy(call.args.oauth_token)) =>
        /\ StoredAuth(file)["username"] = None
        /\ StoredAuth(file)["app_password"] = None

\* set_auth was called with an OAuth token together with a username and an
\* app-password, and the store holds the token.
C2_Witness ==
    /\ call.op = "set_auth"
    /\ Truthy(call.args.oauth_token)
    /\ Truthy(call.args.username)
    /\ Truthy(call.args.app_password)
    /\ StoredAuth(file)["oauth_token"] = call.args.oauth_token

----------------------------------------------------------------------------
(* Properties of the resolver *)

\* A credential slot is available when configuration or environment holds it.
Available(slot) == Truthy(config["auth"][slot]) \/ Truthy(env[slot])

\* The value the slot resolves to: configuration first.
Resolved(slot) ==
    IF Truthy(config["auth"][slot]) THEN config["auth"][slot] ELSE env[slot]

Resolving == result.kind # "none"

\* C3: repository token first, then OAuth token, then the username and
\* app-password pair; the first available scheme alone makes the header.
C3_PriorityOrder ==
    Resolving =>
        /\ Available("repo_token") =>
              /\ result.kind = "headers"
              /\ result.headers.Authorization = "Bearer " \o Resolved("repo_token")
        /\ (~Available("repo_token") /\ Available("oauth_token")) =>
              /\ result.kind = "headers"
              /\ result.headers.Authorization = "Bearer " \o Resolved("oauth_token")
        /\ (~Available("repo_token") /\ ~Available("oauth_token")
              /\ Available("username") /\ Available("app_password")) =>
              /\ result.kind = "headers"
              /\ result.headers.Authorization =
                    "Basic " \o b64encode(Resolved("username") \o ":"
                                          \o Resolved("app_password"))

\* Repository token and username/app-password all configured: the header
\* produced is the repository-token Bearer header.
C3_Witness ==
    /\ Resolving
    /\ Truthy(config["auth"]["repo_token"])
    /\ Truthy(config["auth"]["username"])
    /\ Truthy(config["auth"]["app_password"])
    /\ result.headers.Authorization = "Bearer cfg_repo_token"

NothingUsable ==
    /\ ~Available("repo_token")
    /\ ~Available("oauth_token")
    /\ ~(Available("username") /\ Available("app_password"))

\* C4: get_auth_headers fails with Authentication exactly when no token is
\* available and the username/app-password pair is incomplete; then it
\* produces no header set and its message names both remediation paths.
C4_FailsExactlyWhenNothingUsable ==
    Resolving =>
        /\ (result.kind = "AuthenticationError") <=> NothingUsable
        /\ result.kind \in {"AuthenticationError", "headers"}
        /\ result.kind = "AuthenticationError" =>
              /\ result.headers = NoHeaders
              /\ \E i \in DOMAIN result.message :
                    result.message[i] = "  bb-pr config --repo-token YOUR_REPO_TOKEN"
              /\ \E i \in DOMAIN result.message :
                    result.message[i] = "  OR export BITBUCKET_REPO_TOKEN=your_token"

\* Only a username is available (a partial pair) and the call has failed.
C4_Witness ==
    /\ Resolving
    /\ Available("username")
    /\ ~Available("app_password")
    /\ result.kind = "AuthenticationError"

----------------------------------------------------------------------------
(* Properties of the transport *)

N == config["api"]["retries"]

Done == pc = "done"

IsResponse(h) == h.kind = "response"

\* The first n attempts all met a response with a status of the forcelist.
FailingPrefix(n) ==
    /\ Len(history) >= n
    /\ \A i \in 1..n : IsResponse(history[i]) /\ history[i].status \in {429, 500, 502, 503, 504}

\* C6: a GET that has met at most N forcelist statuses and nothing else
\* goes on to a further attempt, and a GET that meets N forcelist statuses
\* and then a 200 returns the parsed body of the 200 response (the empty
\* object for an empty body).
C6_RetriesThenSuccess ==
    /\ (/\ request.method = "GET"
        /\ Len(history) \in 1..N
        /\ FailingPrefix(Len(history))) => pc = "attempt"
    /\ (/\ Done
        /\ request.method = "GET"
        /\ Len(history) = N + 1
        /\ FailingPrefix(N)
        /\ IsResponse(history[N + 1])
        /\ history[N + 1].status = 200
        /\ history[N + 1].body \in {"", JsonBody}) =>
           /\ outcome.kind = "data"
           /\ outcome.value =
                 (IF history[N + 1].body = JsonBody THEN [id |-> 1] ELSE << >>)

\* A GET with three retries configured met 503, 429, 500 and then a 200
\* with a body, and has returned.
C6_Witness ==
    /\ Done
    /\ request.method = "GET"
    /\ N = 3
    /\ Len(history) = 4
    /\ history[1].status = 503 /\ history[2].status = 429 /\ history[3].status = 500
    /\ history[4].status = 200
    /\ history[4].body = JsonBody
    /\ outcome.kind = "data"

\* C7 as stated: a GET that meets N + 1 forcelist statuses fails with the
\* Typed Failure of the last status: RateLimit for 429, Generic-API otherwise.
C7_ExhaustionIsTyped ==
    (/\ Done
     /\ request.method = "GET"
     /\ Len(history) = N + 1
     /\ FailingPrefix(N + 1)) =>
        outcome.kind = (IF history[N + 1].status = 429 THEN "RateLimitError"
                                                       ELSE "BitbucketAPIError")

\* Attempts in which the request went out: all but the failures to connect.
Sent == {i \in DOMAIN history : history[i].kind # "connect_error"}

C9_RetryOnlyOnForcelist ==
    (\A i \in DOMAIN history : IsResponse(history[i])) =>
        /\ \A i \in 2..Len(history) :
              /\ history[i - 1].status \in {429, 500, 502, 503, 504}
              /\ request.method \in {"HEAD", "GET", "OPTIONS"}
        /\ Len(history) <= N + 1
        /\ \A i \in DOMAIN history :
              history[i].status \notin {429, 500, 502, 503, 504} =>
                  i = Len(history) /\ Done

\* The outcome was produced by classifying the last response.
Classified ==
    /\ Done
    /\ Len(history) > 0
    /\ IsResponse(history[Len(history)])
    /\ outcome.kind # "requests.RetryError"

LastResponse == history[Len(history)]

\* C10: the classification of a response follows the status table, and a
\* 409 answer to a merge call is Conflict.
C10_StatusTable ==
    /\ Classified =>
          LET status == LastResponse.status
              body   == LastResponse.body
          IN  /\ (status \in {200, 201} /\ body = "") =>
                    outcome.kind = "data" /\ outcome.value = << >>
              /\ (status \in {200, 201} /\ body = JsonBody) =>
                    outcome.kind = "data" /\ outcome.value = [id |-> 1]
              /\ status = 204 => outcome.kind = "data" /\ outcome.value = << >>
              /\ status = 401 => outcome.kind = "AuthenticationError"
              /\ status = 403 => outcome.kind = "PermissionError"
              /\ status = 404 => outcome.kind = "NotFoundError"
              /\ status = 409 => outcome.kind = "ConflictError"
              /\ status = 429 => outcome.kind = "RateLimitError"
              /\ status \notin {200, 201, 204, 401, 403, 404, 409, 429} =>
                    outcome.kind = "BitbucketAPIError"
    /\ (/\ request.op = "merge_pull_request"
        /\ \E i \in DOMAIN history : IsResponse(history[i]) /\ history[i].status = 409) =>
          Done /\ outcome.kind = "ConflictError"

\* A merge call met a 409 response and ended as Conflict.
C10_Witness ==
    /\ Done
    /\ request.op = "merge_pull_request"
    /\ Len(history) = 1
    /\ IsResponse(history[1])
    /\ history[1].status = 409
    /\ outcome.kind = "ConflictError"

\* exceptions.py: the classes below BitbucketCLIError.
TypedFailures ==
    {"BitbucketAPIError", "AuthenticationError", "PermissionError", "NotFoundError",
     "ConflictError", "RateLimitError", "ConfigurationError", "GitError",
     "ValidationError"}

\* C11 as stated: every transport request ends in parsed data or in one
\* Typed Failure of the taxonomy, network failures, exhausted retries and
\* undecodable bodies included.
C11_ClosedTaxonomy ==
    Done => outcome.kind \in {"data"} \cup TypedFailures

----------------------------------------------------------------------------
(* Properties of get_diff *)

\* C12 as stated: get_diff returns the body as text on a 200, and for every
\* other status its outcome is the outcome of the status classification.
C12_DiffFollowsClassification ==
    (/\ Done
     /\ request.op = "get_diff"
     /\ Len(history) > 0
     /\ IsResponse(LastResponse)) =>
        IF LastResponse.status = 200
        THEN outcome.kind = "text" /\ outcome.value = LastResponse.body
        ELSE /\ outcome.kind = handle_response(LastResponse).kind
             /\ outcome.value = handle_response(LastResponse).value

----------------------------------------------------------------------------
(* Properties of get_all_pages *)

WalkDone == walk.pc = "done"
WalkReturned == WalkDone /\ walk.outcome.kind = "data"

RECURSIVE ValuesUpTo(_, _)
\* The values of pages 1..i of a chain, one page after the other.
ValuesUpTo(pages, i) ==
    IF i = 0 THEN << >> ELSE ValuesUpTo(pages, i - 1) \o pages[i].values

RECURSIVE SizeUpTo(_, _)
SizeUpTo(pages, i) ==
    IF i = 0 THEN 0 ELSE SizeUpTo(pages, i - 1) + Len(pages[i].values)

Events(ev) == { p \in 1..Len(log) : log[p].ev = ev }
Sizes(pages) == [i \in 1..Len(pages) |-> Len(pages[i].values)]

\* C13: what get_all_pages returns is the values of every page of the chain,
\* page after page in server order and in page order inside, so its length is
\* the sum of the page sizes; while it runs it holds the pages fetched so far.
C13_ConcatenationInOrder ==
    /\ WalkReturned =>
          /\ walk.outcome.value = ValuesUpTo(server.pages, Len(server.pages))
          /\ Len(walk.outcome.value) = SizeUpTo(server.pages, Len(server.pages))
    /\ walk.pc = "loop" =>
          walk.results = ValuesUpTo(server.pages, Cardinality(Events("GET")))

\* Pages of sizes 2, 2, 1 walked to the end: 5 items.
C13_Witness ==
    /\ WalkReturned
    /\ Sizes(server.pages) = <<2, 2, 1>>
    /\ Len(walk.outcome.value) = 5

\* C14: a pause follows a received page exactly when another page is then
\* requested: every pause stands between two fetches, every two consecutive
\* fetches have one pause between them, and a walk over k pages that returns
\* has paused k - 1 times, never after the last page.
C14_PauseBetweenPages ==
    /\ \A p \in Events("sleep") :
          /\ p > 1 /\ log[p - 1].ev = "GET" /\ log[p - 1].reply = "data"
          /\ IF p = Len(log) THEN walk.pc = "loop" ELSE log[p + 1].ev = "GET"
    /\ \A p \in Events("GET") : p < Len(log) => log[p + 1].ev = "sleep"
    /\ WalkReturned =>
          Cardinality(Events("sleep")) = Len(server.pages) - 1

\* Three pages walked to the end: two pauses, the last event is a fetch.
C14_Witness ==
    /\ WalkReturned
    /\ Len(server.pages) = 3
    /\ Cardinality(Events("sleep")) = 2
    /\ log[Len(log)].ev = "GET"

\* C15: one transport call per page: a walk that returns has made exactly as
\* many calls as the chain has pages (one call when the first page has no
\* cursor), and no walk makes more.
C15_OneCallPerPage ==
    /\ Cardinality(Events("GET")) <= Len(server.pages)
    /\ WalkReturned => Cardinality(Events("GET")) = Len(server.pages)
    /\ (WalkReturned /\ Len(server.pages) = 1) =>
          log = <<GetEvent(server.pages[1].url, "data")>>

\* The longest chain walked to the end with one call per page.
C15_Witness ==
    /\ WalkReturned
    /\ Len(server.pages) = MaxPages
    /\ Cardinality(Events("GET")) = MaxPages

\* C16 as stated: every URL the transport requests during the walk is the URL
\* of a page of the chain: the endpoint for the first, then each cursor as the
\* service gave it.
C16_CursorRequestedAsGiven ==
    \A p \in Events("GET") :
        log[p].url = server.pages[Cardinality({q \in Events("GET") : q <= p})].url

\* C17: when the request for a page fails with a Typed Failure, the walk ends
\* with that failure, hands out no item, and requests nothing after it.
C17_NoPartialData ==
    \A p \in Events("GET") :
        log[p].reply \in TypedFailures =>
            /\ p = Len(log)
            /\ WalkDone
            /\ walk.outcome.kind = log[p].reply
            /\ walk.outcome.value = << >>

\* The second page fails after the first gave items.
C17_Witness ==
    /\ WalkDone
    /\ Len(log) = 3
    /\ log[3].reply = "NotFoundError"
    /\ walk.outcome.kind = "NotFoundError"
    /\ walk.results # << >>

----------------------------------------------------------------------------
(* Properties of create_pr *)

\* The options the create operation is to refuse: those validate_create_options
\* has an error for, and a title left empty.
Malformed(args) == validate_create_options(args) # {} \/ args.title = NoText

\* C18 as stated: a create operation given a malformed source or destination
\* branch or an empty title ends in a Validation failure and sends no HTTP
\* request.
C18_ValidationBeforeNetwork ==
    (cmd.op = "create_pr" /\ Malformed(cmd.args)) =>
        /\ cmd.pc = "done"
        /\ cmd.outcome.kind = "ValidationError"
        /\ log = << >>

\* C19 as stated: a request of an operation that fails with a Typed Failure
\* is the operation's last request, and the operation ends with that failure.
C19_FailuresTerminate ==
    \A p \in 1..Len(log) :
        log[p].reply \in TypedFailures =>
            /\ p = Len(log)
            /\ cmd.pc = "done"
            /\ cmd.outcome.kind = log[p].reply

----------------------------------------------------------------------------
(* Properties of validate_auth *)

Validated == cmd.op = "validate_auth" /\ cmd.pc = "done"

ProbingCase ==
    /\ Validated
    /\ ~Available("repo_token")
    /\ \/ Available("oauth_token")
       \/ Available("username") /\ Available("app_password")

Contains(message, part) == \E i \in 1..Len(message) : message[i] = part

\* The parts of C21 that do not depend on the body: one GET to the identity
\* endpoint, and the outcome of a 401, of another non-200 status and of a
\* network failure; nothing but valid or Authentication leaves.
ProbeMapping ==
    /\ log = <<ProbeEvent(config, cmd.response)>>
    /\ log[1].url = <<config["api"]["base_url"], "/user">>
    /\ cmd.outcome.kind \in {"valid", "AuthenticationError"}
    /\ cmd.response.kind # "response" => cmd.outcome.kind = "AuthenticationError"
    /\ (cmd.response.kind = "response" /\ cmd.response.status = 401) =>
          cmd.outcome.kind = "AuthenticationError"
    /\ (cmd.response.kind = "response" /\ cmd.response.status \notin {200, 401}) =>
          /\ cmd.outcome.kind = "AuthenticationError"
          /\ Contains(cmd.outcome.message, ToString(cmd.response.status))

----------------------------------------------------------------------------
(* Properties of get_paginated *)

PageFetched == cmd.op = "get_paginated" /\ cmd.pc = "done"

Lacks(key) == key \notin DOMAIN server.body

\* C22: get_paginated makes one transport call, and for every decoded body
\* it returns a page with page 1, pagelen 10, size 0 and no values in place
\* of the fields the body lacks, and the body's own fields otherwise.
C22_DefaultsForMissingFields ==
    PageFetched =>
        /\ Len(log) = 1 /\ log[1].ev = "GET"
        /\ log[1].reply = "data" =>
              /\ cmd.outcome.kind = "data"
              /\ cmd.outcome.value.page = IF Lacks("page") THEN 1 ELSE server.body.page
              /\ cmd.outcome.value.pagelen =
                    IF Lacks("pagelen") THEN 10 ELSE server.body.pagelen
              /\ cmd.outcome.value.size = IF Lacks("size") THEN 0 ELSE server.body.size
              /\ cmd.outcome.value.values =
                    IF Lacks("values") THEN << >> ELSE server.body["values"]

\* An empty body: every field of the page is a default.
C22_Witness ==
    /\ PageFetched
    /\ DOMAIN server.body = {}
    /\ cmd.outcome.kind = "data"
    /\ cmd.outcome.value.page = 1 /\ cmd.outcome.value.pagelen = 10
    /\ cmd.outcome.value.size = 0 /\ cmd.outcome.value.values = << >>

----------------------------------------------------------------------------
(* Properties of add_comment *)

Commented == cmd.op = "add_comment" /\ cmd.pc = "done"

\* A file, a starting line and an ending line are given; a line is numbered
\* from 1.
MultiLine(kwargs) ==
    /\ IsSet(kwargs, "file")
    /\ "from_line" \in DOMAIN kwargs /\ kwargs["from_line"] >= 1
    /\ "to_line" \in DOMAIN kwargs /\ kwargs["to_line"] >= 1

\* C23: a comment on a range of lines of a file carries the file and the
\* starting line under inline.from and the ending line under inline.to,
\* whether or not a single line is given too.
C23_MultiLinePayload ==
    (Commented /\ MultiLine(cmd.kwargs)) =>
        /\ "inline" \in DOMAIN cmd.payload
        /\ "from" \in DOMAIN cmd.payload["inline"]
        /\ cmd.payload["inline"]["from"]["path"] = cmd.kwargs["file"]
        /\ cmd.payload["inline"]["from"]["line"] = cmd.kwargs["from_line"]
        /\ cmd.payload["inline"]["to"]["line"] = cmd.kwargs["to_line"]
        /\ cmd.payload["inline"]["to"]["path"] = cmd.kwargs["file"]

\* file a.py, lines 3 to 7, with the single line 5 given as well.
C23_Witness ==
    /\ Commented
    /\ DOMAIN cmd.kwargs = {"file", "line", "from_line", "to_line"}
    /\ cmd.kwargs["file"] = "a.py" /\ cmd.kwargs["line"] = 5
    /\ cmd.kwargs["from_line"] = 3 /\ cmd.kwargs["to_line"] = 7
    /\ cmd.payload["inline"]["to"]["line"] = 7
    /\ cmd.payload["inline"]["from"]["path"] = "a.py"

----------------------------------------------------------------------------
(* Properties of the create payload *)

Posted ==
    /\ cmd.op = "create_pr"
    /\ cmd.pc = "done"
    /\ Len(log) > 0 /\ log[Len(log)].ev = "POST"

\* C24: the payload posted by create names the source and the destination
\* branch as nested objects, carries close_source_branch only as true and
\* reviewers only as a non-empty list, and leaves out each of the two
\* otherwise.
C24_OptionalFieldsOnlyWhenSet ==
    Posted =>
        /\ cmd.payload["source"]["branch"]["name"] = cmd.source
        /\ cmd.payload["destination"]["branch"]["name"] = cmd.dest
        /\ cmd.source # NoText /\ cmd.dest # NoText
        /\ "close_source_branch" \in DOMAIN cmd.payload <=>
              (cmd.args.close_branch \/ config["defaults"]["delete_source_branch"])
        /\ "close_source_branch" \in DOMAIN cmd.payload =>
              cmd.payload["close_source_branch"] = TRUE
        /\ "reviewers" \in DOMAIN cmd.payload <=>
              (cmd.args.reviewers \o config["defaults"]["reviewers"] # << >>)
        /\ "reviewers" \in DOMAIN cmd.payload => cmd.payload["reviewers"] # << >>

\* Nothing to close and nobody to review: the payload has the four
\* mandatory fields only.
C24_Witness ==
    /\ Posted
    /\ ~cmd.args.close_branch /\ ~config["defaults"]["delete_source_branch"]
    /\ cmd.reviewer_list = << >>
    /\ DOMAIN cmd.payload = {"title", "description", "source", "destination"}

----------------------------------------------------------------------------
(* Properties of list_pull_requests *)

Listed == cmd.op = "list_pull_requests"

\* C25: the query expression is the author condition AND the reviewer
\* condition when both filters are given, the one condition when one is
\* given, and absent when none is; the state and the page length go as the
\* params state and pagelen and in no part of the query expression.
C25_FiltersAndParams ==
    Listed =>
        LET kwargs == cmd.kwargs
            params == cmd.params
            author == Given(kwargs, "author")
            reviewer == Given(kwargs, "reviewer")
        IN  /\ "q" \in DOMAIN params <=> (author \/ reviewer)
            /\ (author /\ reviewer) =>
                  params["q"] = AuthorCondition(kwargs) \o <<" AND ">>
                                    \o ReviewerCondition(kwargs)
            /\ (author /\ ~reviewer) => params["q"] = AuthorCondition(kwargs)
            /\ (~author /\ reviewer) => params["q"] = ReviewerCondition(kwargs)
            /\ "state" \in DOMAIN params <=> Given(kwargs, "state")
            /\ Given(kwargs, "state") => params["state"] = kwargs["state"]
            /\ "pagelen" \in DOMAIN params <=> Given(kwargs, "limit")
            /\ Given(kwargs, "limit") => params["pagelen"] = kwargs["limit"]
            /\ (Given(kwargs, "state") /\ "q" \in DOMAIN params) =>
                  ~Contains(params["q"], kwargs["state"])

\* Both filters, a state and a page length.
C25_Witness ==
    /\ Listed
    /\ Given(cmd.kwargs, "author") /\ Given(cmd.kwargs, "reviewer")
    /\ Given(cmd.kwargs, "state") /\ Given(cmd.kwargs, "limit")
    /\ Contains(cmd.params["q"], " AND ")
    /\ cmd.params["state"] = "OPEN" /\ cmd.params["pagelen"] = 25

----------------------------------------------------------------------------
(* Properties of is_authenticated *)

BothAsked == Resolving /\ cmd.op = "is_authenticated" /\ cmd.pc = "done"

\* C26: on the same configuration and environment, is_authenticated is true
\* exactly when get_auth_headers returns headers and false exactly when it
\* raises AuthenticationError.
C26_AgreesWithResolver ==
    BothAsked =>
        /\ cmd.outcome <=> result.kind = "headers"
        /\ ~cmd.outcome <=> result.kind = "AuthenticationError"

\* A username without an app password, in the environment only: both say no.
C26_Witness ==
    /\ BothAsked
    /\ Truthy(env["username"]) /\ ~Available("app_password")
    /\ ~Available("repo_token") /\ ~Available("oauth_token")
    /\ ~cmd.outcome
    /\ result.kind = "AuthenticationError"

----------------------------------------------------------------------------
(* Properties of the built-in defaults *)

\* C27 as stated: the built-in defaults are never modified, and what
\* reset_config stores is the original defaults, every auth slot absent.
C27_ResetRestoresDefaults ==
    /\ DEFAULT_CONFIG = DefaultConfigLiteral
    /\ call.op = "reset_config" =>
          /\ file = save_config(DefaultConfigLiteral)
          /\ file.content["auth"] = NoAuth

----------------------------------------------------------------------------
(* Properties of the command line *)

CommandDone == cmd.op \in Commands /\ cmd.pc = "done"

\* C28: with no usable credential in configuration or environment, each of
\* create, list, show, approve, unapprove, decline, merge and comment exits
\* with a non-zero status before its body runs and sends no HTTP request;
\* config always runs.
C28_NoCredentialNoRequest ==
    CommandDone =>
        /\ (cmd.op \in GuardedCommands /\ NothingUsable) =>
              /\ cmd.exit_code # 0
              /\ ~cmd.ran
              /\ log = << >>
        /\ cmd.op = "config" => cmd.ran

\* merge without any credential: status 1, nothing sent.
C28_Witness ==
    /\ CommandDone
    /\ cmd.op = "merge"
    /\ NothingUsable
    /\ cmd.exit_code = 1
    /\ log = << >>

----------------------------------------------------------------------------
(* Properties of the reviewers create sends *)

\* C29 as stated: the reviewers list of the posted payload has no two
\* entries with the same uuid.
C29_NoDuplicateUuid ==
    (Posted /\ "reviewers" \in DOMAIN cmd.payload) =>
        LET reviewers == cmd.payload["reviewers"]
        IN  \A i, j \in 1..Len(reviewers) :
                (/\ i # j
                 /\ "uuid" \in DOMAIN reviewers[i]
                 /\ "uuid" \in DOMAIN reviewers[j]) =>
                    reviewers[i]["uuid"] # reviewers[j]["uuid"]

----------------------------------------------------------------------------
(* Properties of update_pr *)

\* update_pr has sent its PUT.
Updated ==
    /\ cmd.op = "update_pr"
    /\ cmd.pc = "done"
    /\ log[Len(log)].ev = "PUT"

\* C30 as stated: with remove_reviewer = X the pull request is read first,
\* then one PUT goes out, and its payload has a reviewers list in which no
\* entry has the username X.
C30_RemovedReviewerNotSent ==
    (Updated /\ Truthy(cmd.args.remove_reviewer)) =>
        /\ log[1].ev = "GET" /\ log[1].url = PullRequestUrl
        /\ Cardinality(Events("PUT")) = 1
        /\ "reviewers" \in DOMAIN cmd.payload
        /\ \A i \in 1..Len(cmd.payload["reviewers"]) :
              LET reviewer == cmd.payload["reviewers"][i]
              IN  "username" \in DOMAIN reviewer =>
                      reviewer["username"] # cmd.args.remove_reviewer

====
